---- MODULE Spec2Model ----
(***************************************************************************)
(* Model of the GitHub champion scraper (main.py): the ledger load, the    *)
(* rate-limit-aware paginated crawl, the per-candidate qualification chain *)
(* and the append-only CSV sink.                                           *)
(*                                                                         *)
(* Python strings are sequences of one-character strings; the value None   *)
(* of an optional string is the one-element sequence PyNone, which no real *)
(* string equals.  An optional result (a dict or None, a pair or None) is  *)
(* a sequence of length one or two, or the empty sequence for None.        *)
(***************************************************************************)
EXTENDS Integers, Sequences, FiniteSets, TLC

\* ------------------------------------------------------------------ bounds
MaxPage == 3
MaxItems == 2
MaxDepth == 2
MaxPush == 4
MaxClock == 1

\* ------------------------------------------------------- program constants
EXCLUDED_COMPANIES ==
    << <<"g", "o", "o", "g", "l", "e">>,
       <<"a", "m", "a", "z", "o", "n">>,
       <<"m", "i", "c", "r", "o", "s", "o", "f", "t">>,
       <<"f", "a", "c", "e", "b", "o", "o", "k">>,
       <<"c", "o", "g", "n", "i", "z", "a", "n", "t">>,
       <<"a", "c", "c", "e", "n", "t", "u", "r", "e">>,
       <<"t", "c", "s">>,
       <<"d", "e", "l", "o", "i", "t", "t", "e">>,
       <<"k", "p", "m", "g">>,
       <<"c", "l", "o", "u", "d", "f", "l", "a", "r", "e">>,
       <<"l", "i", "n", "k", "e", "d", "i", "n">>,
       <<"u", "b", "e", "r">> >>

EXCLUDED_INDUSTRIES ==
    << <<"f", "i", "n", "t", "e", "c", "h">>,
       <<"h", "e", "a", "l", "t", "h", "t", "e", "c", "h">> >>

SENIORITY_KEYWORDS ==
    << <<"s", "t", "a", "f", "f", " ", "e", "n", "g", "i", "n", "e", "e", "r">>,
       <<"p", "r", "i", "n", "c", "i", "p", "a", "l", " ", "e", "n", "g", "i", "n", "e", "e", "r">>,
       <<"s", "e", "n", "i", "o", "r", " ", "m", "a", "n", "a", "g", "e", "r">>,
       <<"d", "i", "r", "e", "c", "t", "o", "r">>,
       <<"s", "e", "n", "i", "o", "r", " ", "d", "i", "r", "e", "c", "t", "o", "r">>,
       <<"e", "n", "g", "i", "n", "e", "e", "r">> >>

STARTUP_KEYWORDS ==
    << <<"a", "d", "v", "i", "s", "o", "r">>,
       <<"v", "c">>,
       <<"a", "n", "g", "e", "l", " ", "i", "n", "v", "e", "s", "t", "o", "r">>,
       <<"s", "t", "a", "r", "t", "u", "p">> >>

StartupLabel ==
    <<"S", "t", "a", "r", "t", "u", "p", "/", "V", "C", " ", "i", "n", "v", "o", "l", "v", "e", "m", "e", "n", "t">>

ActivityThreshold == 5

CooldownSeconds == 60

RecentWindowDays == 30

SecondsPerDay == 86400

FIELDNAMES ==
    << <<"n", "a", "m", "e">>,
       <<"l", "o", "c", "a", "t", "i", "o", "n">>,
       <<"f", "o", "l", "l", "o", "w", "e", "r", "s">>,
       <<"r", "e", "p", "o", "s">>,
       <<"u", "r", "l">>,
       <<"r", "e", "c", "e", "n", "t", "_", "c", "o", "m", "m", "i", "t", "s">>,
       <<"r", "o", "l", "e">> >>

NameColumn ==
    <<"n", "a", "m", "e">>

PushEvent == "PushEvent"

\* ------------------------------------------------------------ Python str
PyNone == <<"<None>">>

UpperAlpha ==
    <<"A", "B", "C", "D", "E", "F", "G", "H", "I", "J", "K", "L", "M", "N", "O", "P", "Q", "R", "S", "T", "U", "V", "W", "X", "Y", "Z">>

LowerAlpha ==
    <<"a", "b", "c", "d", "e", "f", "g", "h", "i", "j", "k", "l", "m", "n", "o", "p", "q", "r", "s", "t", "u", "v", "w", "x", "y", "z">>

Digits == <<"0", "1", "2", "3", "4", "5", "6", "7", "8", "9">>

IndexIn(seq, c) == CHOOSE i \in 1..Len(seq) : seq[i] = c

\* str.lower() on one character
LowerChar(c) ==
    IF \E i \in 1..Len(UpperAlpha) : UpperAlpha[i] = c
    THEN LowerAlpha[IndexIn(UpperAlpha, c)]
    ELSE c

\* str.upper() on one character
UpperChar(c) ==
    IF \E i \in 1..Len(LowerAlpha) : LowerAlpha[i] = c
    THEN UpperAlpha[IndexIn(LowerAlpha, c)]
    ELSE c

\* str.lower()
lower(s) == [i \in 1..Len(s) |-> LowerChar(s[i])]

\* str.capitalize(): first character upper-cased, the rest lower-cased
capitalize(s) == [i \in 1..Len(s) |-> IF i = 1 THEN UpperChar(s[i]) ELSE LowerChar(s[i])]

\* the Python expression  k in s  on strings
Contains(s, k) ==
    \E i \in 0..(Len(s) - Len(k)) : SubSeq(s, i + 1, i + Len(k)) = k

\* truthiness of an optional string:  if s  /  if not s
Truthy(s) == s # PyNone /\ s # <<>>

\* str(n) for a small non-negative integer
Str(n) ==
    IF n < 10 THEN <<Digits[n + 1]>>
    ELSE <<Digits[(n \div 10) + 1], Digits[(n % 10) + 1]>>

\* ------------------------------------------------------ qualification
\* is_excluded_company
is_excluded_company(company_name) ==
    IF ~Truthy(company_name) THEN FALSE
    ELSE \E i \in 1..Len(EXCLUDED_COMPANIES) :
            Contains(lower(company_name), EXCLUDED_COMPANIES[i])

\* is_excluded_industry
is_excluded_industry(bio) ==
    IF ~Truthy(bio) THEN FALSE
    ELSE \E i \in 1..Len(EXCLUDED_INDUSTRIES) :
            Contains(lower(bio), EXCLUDED_INDUSTRIES[i])

\* variant: the last matching seniority keyword wins
extract_senior_title_last_match(bio) ==
    LET b == IF Truthy(bio) THEN lower(bio) ELSE <<>>
        hitsS == {i \in 1..Len(SENIORITY_KEYWORDS) : Contains(b, SENIORITY_KEYWORDS[i])}
        hitsV == {i \in 1..Len(STARTUP_KEYWORDS) : Contains(b, STARTUP_KEYWORDS[i])}
    IN  IF hitsS # {}
        THEN capitalize(SENIORITY_KEYWORDS[CHOOSE i \in hitsS : \A j \in hitsS : i >= j])
        ELSE IF hitsV # {} THEN StartupLabel
        ELSE PyNone

\* extract_senior_title: the first seniority keyword in list order,
\* capitalized; else the fixed startup label; else None
extract_senior_title(bio) ==
    LET b == IF Truthy(bio) THEN lower(bio) ELSE <<>>
        hitsS == {i \in 1..Len(SENIORITY_KEYWORDS) : Contains(b, SENIORITY_KEYWORDS[i])}
        hitsV == {i \in 1..Len(STARTUP_KEYWORDS) : Contains(b, STARTUP_KEYWORDS[i])}
    IN  IF hitsS # {}
        THEN capitalize(SENIORITY_KEYWORDS[CHOOSE i \in hitsS : \A j \in hitsS : i <= j])
        ELSE IF hitsV # {} THEN StartupLabel
        ELSE PyNone

\* ------------------------------------------------------------ responses
\* get_github_profile_data: the JSON body on 200, None otherwise
get_github_profile_data(status, body) ==
    IF status = 200 THEN <<body>> ELSE <<>>

\* check_rate_limit: (search_remaining, search_reset) on 200, otherwise the
\* bare return, i.e. None
check_rate_limit(status, remaining, reset) ==
    IF status = 200 THEN <<remaining, reset>> ELSE <<>>

\* variant: the status of the events response is not looked at
get_recent_commit_count_any_status(status, events, now_local) ==
    LET last_month == now_local - RecentWindowDays * SecondsPerDay
    IN  Cardinality({i \in 1..Len(events) :
            /\ events[i].type = PushEvent
            /\ events[i].created_at >= last_month})

\* get_recent_commit_count: push events whose naive created_at is not
\* before datetime.now() - timedelta(days=30); 0 on a non-200 response.
\* now_local is the naive local wall clock that datetime.now() reads.
get_recent_commit_count(status, events, now_local) ==
    LET last_month == now_local - RecentWindowDays * SecondsPerDay
    IN  IF status = 200
        THEN Cardinality({i \in 1..Len(events) :
                 /\ events[i].type = PushEvent
                 /\ events[i].created_at >= last_month})
        ELSE 0

\* variant: an exclusive threshold
MeetsActivityStrict(recent_commits) == recent_commits > ActivityThreshold

\* the admission test on recent_commits
MeetsActivity(recent_commits) == recent_commits >= ActivityThreshold

\* ------------------------------------------------------------- CSV file
\* csv.DictWriter cell for a str-or-None value (None is written as '')
StrCell(v) == IF v = PyNone THEN <<>> ELSE v

\* the profile_info dict built for an accepted role
profile_info(username, profile_data, recent_commits, role) ==
    [name |-> username,
     location |-> profile_data.location,
     followers |-> profile_data.followers,
     repos |-> profile_data.public_repos,
     url |-> profile_data.html_url,
     recent_commits |-> recent_commits,
     role |-> role]

\* writer.writerow(profile): the cells in fieldnames order
csv_row(profile) ==
    << StrCell(profile.name), StrCell(profile.location), Str(profile.followers),
       Str(profile.repos), StrCell(profile.url), Str(profile.recent_commits),
       StrCell(profile.role) >>

\* variant: the file is opened for writing, not for appending
append_to_csv_truncating(f, profile) ==
    <<FIELDNAMES>> \o <<csv_row(profile)>>

\* variant: the header is written on every call
append_to_csv_always_header(f, profile) ==
    f \o <<FIELDNAMES>> \o <<csv_row(profile)>>

\* append_to_csv: header first when the file is empty, then the row
append_to_csv(f, profile) ==
    (IF Len(f) = 0 THEN <<FIELDNAMES>> ELSE <<>>) \o f \o <<csv_row(profile)>>

\* variant: the first data row is taken for a second header
load_existing_users_skip_first(exists, f) ==
    IF ~exists \/ Len(f) = 0 THEN {}
    ELSE LET col == IndexIn(f[1], NameColumn)
         IN  {f[i][col] : i \in 3..Len(f)}

\* the rows csv.DictReader yields: those after the first row (the field
\* names) that are not blank
DataRows(f) == {i \in 2..Len(f) : f[i] # <<>>}

\* row['name'] raises KeyError when no field is called name; nothing in
\* load_existing_users catches it
LoadRaises(exists, f) ==
    /\ exists
    /\ DataRows(f) # {}
    /\ ~\E c \in 1..Len(f[1]) : f[1][c] = NameColumn

\* csv.DictReader + row['name'] for every data row; the first row of the
\* file gives the field names, a row too short for a field has None there
load_existing_users(exists, f) ==
    IF ~exists \/ Len(f) = 0 THEN {}
    ELSE LET col == IndexIn(f[1], NameColumn)
         IN  {IF col <= Len(f[i]) THEN f[i][col] ELSE PyNone : i \in DataRows(f)}

\* variant: the set is replaced by the new identity
ledger_add_replacing(ledger, username) == {username}

\* variant: the set is not updated after the append
ledger_add_dropped(ledger, username) == ledger

\* existing_users.add(username)
ledger_add(ledger, username) == ledger \cup {username}

\* ------------------------------------------------------- sampled inputs
Logins == { <<"a", "l">>, <<"b", "o">> }

CompanyGoogle == <<"G", "o", "o", "g", "l", "e", " ", "I", "n", "c", ".">>

CompanyAcme == <<"A", "c", "m", "e">>

BioFintech ==
    <<"S", "e", "n", "i", "o", "r", " ", "e", "n", "g", "i", "n", "e", "e", "r", ",", " ", "e", "x", "-", "f", "i", "n", "t", "e", "c", "h", " ", "a", "d", "v", "i", "s", "o", "r">>

BioDirector ==
    <<"D", "i", "r", "e", "c", "t", "o", "r", " ", "o", "f", " ", "P", "l", "a", "t", "f", "o", "r", "m", " ", "E", "n", "g", "i", "n", "e", "e", "r", "i", "n", "g">>

BioAngel == <<"A", "n", "g", "e", "l", " ", "I", "n", "v", "e", "s", "t", "o", "r">>

BioStaffAdvisor ==
    <<"S", "T", "A", "F", "F", " ", "E", "n", "g", "i", "n", "e", "e", "r", ",", " ", "s", "t", "a", "r", "t", "u", "p", " ", "a", "d", "v", "i", "s", "o", "r">>

BioPlain == <<"I", " ", "l", "i", "k", "e", " ", "c", "a", "t", "s">>

Companies == {PyNone, <<>>, CompanyGoogle, CompanyAcme}

Bios == {PyNone, <<>>, BioFintech, BioDirector, BioAngel, BioStaffAdvisor, BioPlain}

SearchStatuses == {200, 403, 500}

ProbeStatuses == {200, 500}

FetchStatuses == {200, 404}

UtcOffsets == {0 - 3600, 0, 3600}

\* the JSON body of /users/{username}
Profile(username, company, bio) ==
    [login |-> username, company |-> company, bio |-> bio,
     location |-> PyNone, followers |-> 7, public_repos |-> 9,
     html_url |-> <<"g", "h", "/">> \o username]

\* responses of /users/{username}: any sampled company and bio on 200; the
\* body of an error response is never read
ProfileResponses ==
    { [status |-> 200, company |-> c, bio |-> b] : c \in Companies, b \in Bios }
    \cup { [status |-> s, company |-> PyNone, bio |-> PyNone] : s \in FetchStatuses \ {200} }

\* search result pages: up to MaxItems logins, repetitions allowed
RECURSIVE SeqsUpTo(_, _)
SeqsUpTo(S, n) ==
    IF n = 0 THEN {<<>>}
    ELSE LET shorter == SeqsUpTo(S, n - 1)
         IN  shorter \cup {Append(s, x) : s \in {t \in shorter : Len(t) = n - 1}, x \in S}

ResultPages == SeqsUpTo(Logins, MaxItems)

\* event feeds: n fresh pushes followed by at most one boundary event
Event(type, now_utc, age) == [type |-> type, created_at |-> now_utc - age]

TailEvents(now_utc) ==
    { Event(PushEvent, now_utc, RecentWindowDays * SecondsPerDay - 1),
      Event(PushEvent, now_utc, (RecentWindowDays + 1) * SecondsPerDay),
      Event("WatchEvent", now_utc, SecondsPerDay) }

Feeds(now_utc) ==
    { [i \in 1..n |-> Event(PushEvent, now_utc, SecondsPerDay)] \o tail :
        n \in 0..MaxPush,
        tail \in {<<>>} \cup {<<e>> : e \in TailEvents(now_utc)} }

\* a file left by earlier runs: empty, or the header and one row per login
OldRow(username) ==
    csv_row(profile_info(username, Profile(username, CompanyAcme, BioDirector),
                         ActivityThreshold, extract_senior_title(BioDirector)))

StartupFiles ==
    {<<>>} \cup
    { <<FIELDNAMES>> \o [i \in 1..Len(us) |-> OldRow(us[i])] :
        us \in {s \in SeqsUpTo(Logins, Cardinality(Logins)) :
                  Len(s) > 0 /\ \A i, j \in 1..Len(s) : i # j => s[i] # s[j]} }

\* a historical row whose name cell is empty
NamelessRow == [OldRow(<<>>) EXCEPT ![1] = <<>>]

\* files with malformed history: a row with an empty name cell, a blank row
MalformedFiles ==
    UNION { { <<FIELDNAMES, NamelessRow, OldRow(u)>>,
              <<FIELDNAMES, OldRow(u), <<>>, NamelessRow>>,
              <<FIELDNAMES, <<>>, OldRow(u)>> } : u \in Logins }

\* --------------------------------------- the functions on the sampled inputs
\* is_excluded_company on every sampled company field
CompanyExcluded == [c \in Companies |-> is_excluded_company(c)]

\* is_excluded_industry on every sampled bio
IndustryExcluded == [b \in Bios |-> is_excluded_industry(b)]

\* extract_senior_title on every sampled bio
SeniorTitle == [b \in Bios |-> extract_senior_title(b)]

\* get_recent_commit_count on every sampled events response, by status
RecentCommitCounts ==
    [s \in FetchStatuses |->
        { get_recent_commit_count(s, events, MaxClock + offset) :
            offset \in UtcOffsets, events \in Feeds(MaxClock) }]

\* ------------------------------------------------------------------ state
VARIABLES
    pc,               \* "load", "probe", "search", "process", "done", "crashed"
    exception,        \* the uncaught exception when pc = "crashed", else ""
    page,             \* the page variable of __main__ / scrape_github
    depth,            \* nesting of scrape_github calls (403 retries)
    existing_users,   \* the set built by load_existing_users
    file_exists,      \* champions.csv exists
    file,             \* rows of champions.csv, each a tuple of cells
    file0,            \* the rows champions.csv had at startup
    items,            \* data['items'] not yet iterated (logins)
    rate,             \* the probe made by the current scrape_github call
    response_status,  \* status of the search response of the current call
    retrying,         \* the page whose search got 403 and is not yet re-requested
    processed,        \* pages whose for-loop over the items completed
    appends,          \* number of append_to_csv calls made in this run
    searched,         \* page and status of the latest search request
    returned,         \* data['items'] of the latest search response
    count_call,       \* arguments and result of a get_recent_commit_count call
    last              \* what the loop body did for the latest candidate

vars == << pc, exception, page, depth, existing_users, file_exists, file, file0,
           items, rate, response_status, retrying, processed, appends, searched,
           returned, count_call, last >>

NoCall == [status |-> 0, events |-> <<>>, now_utc |-> 0, offset |-> 0, result |-> 0]

NoSearch == [page |-> 0, status |-> 0]

NoSleep == 0 - 1

NoEvents == 0 - 1

NoRate == [status |-> 0, quota |-> <<>>, now |-> 0, slept |-> NoSleep, page |-> 0]

NoLast == [login |-> <<>>, index |-> 0, profile_status |-> 0, verdict |-> "none",
           company |-> PyNone, bio |-> PyNone, events_requests |-> 0,
           events_status |-> 0, commits |-> NoEvents, known |-> FALSE]

\* the process starts with champions.csv being one of the given files
InitWith(files) ==
    /\ pc = "load"
    /\ exception = ""
    /\ page = 1
    /\ depth = 0
    /\ existing_users = {}
    /\ file \in files
    /\ file_exists \in {f \in BOOLEAN : Len(file) > 0 => f}
    /\ file0 = file
    /\ items = <<>>
    /\ rate = NoRate
    /\ response_status = 0
    /\ retrying = 0
    /\ processed = {}
    /\ appends = 0
    /\ searched = NoSearch
    /\ returned = <<>>
    /\ count_call = NoCall
    /\ last = NoLast

Init == InitWith(StartupFiles)

\* ------------------------------------------------------------- __main__
\* existing_users = load_existing_users(); page = 1
LoadExistingUsers ==
    /\ pc = "load"
    /\ IF LoadRaises(file_exists, file)
       THEN /\ pc' = "crashed"
            /\ exception' = "KeyError"
            /\ UNCHANGED existing_users
       ELSE /\ pc' = "probe"
            /\ existing_users' = load_existing_users(file_exists, file)
            /\ UNCHANGED exception
    /\ page' = 1
    /\ UNCHANGED << depth, file_exists, file, file0, items, rate,
                    response_status, retrying, processed, appends, searched,
                    returned, count_call, last >>

\* ------------------------------------------------------ scrape_github
\* time.sleep(secs) raises ValueError for a negative argument
SleepRaises(secs) == secs < 0

\* entry of scrape_github up to the search request: the rate-limit probe,
\* the tuple unpacking of its result and the wait when the quota is 0
CheckRateLimit ==
    /\ pc = "probe"
    /\ \E status \in ProbeStatuses, remaining \in {0, 1},
          reset \in 0..MaxClock, now \in 0..MaxClock :
          LET quota == check_rate_limit(status, remaining, reset)
              wait_time == reset - now
          IN  IF Len(quota) # 2
              THEN /\ pc' = "crashed"
                   /\ exception' = "TypeError"
                   /\ rate' = [status |-> status, quota |-> quota, now |-> now,
                               slept |-> NoSleep, page |-> page]
              ELSE IF quota[1] = 0 /\ SleepRaises(wait_time)
              THEN /\ pc' = "crashed"
                   /\ exception' = "ValueError"
                   /\ rate' = [status |-> status, quota |-> quota, now |-> now,
                               slept |-> NoSleep, page |-> page]
              ELSE /\ pc' = "search"
                   /\ exception' = exception
                   /\ rate' = [status |-> status, quota |-> quota, now |-> now,
                               slept |-> IF quota[1] = 0 THEN wait_time ELSE NoSleep,
                               page |-> page]
    /\ response_status' = 0
    /\ returned' = <<>>
    /\ last' = NoLast
    /\ UNCHANGED << page, depth, existing_users, file_exists, file, file0, items,
                    retrying, processed, appends, searched, count_call >>

\* variant: the retry moves on to the next page
RetryPageAdvanced(p) == p + 1

\* the page requested again after a 403: scrape_github(existing_users, page)
RetryPage(p) == p

\* variant: the retry reuses the quota read before the 403
RetryEntryCachedQuota == "search"

\* where the retry starts: at the top of scrape_github, with a new probe
RetryEntry == "probe"

\* variant: the page counter moves by two
AdvancePageSkipping(p) == p + 2

\* page += 1 in the while-loop of __main__
AdvancePage(p) == p + 1

\* the result of scrape_github for a status that is neither 403 nor 200:
\* falls through to "return True"
ReturnOnError == TRUE

\* the interpreter's limit on nested calls (sys.getrecursionlimit(), which
\* main.py leaves at the CPython default)
RecursionLimit == 1000

\* with depth retries pending the stack holds the module frame and
\* depth + 1 frames of scrape_github; the next nested call needs one more.
\* Calls made inside a frame (requests, print) can only hit the limit sooner.
RecursionRaises(d) == d + 3 > RecursionLimit

\* the search request and what follows it up to the for-loop, for one
\* response; a False result ends the while-loop of __main__, a True result
\* makes it do page += 1.  cap bounds the number of pending retries explored.
SearchResponse(status, its, cap) ==
          /\ response_status' = status
          /\ searched' = [page |-> page, status |-> status]
          /\ returned' = IF status = 200 THEN its ELSE <<>>
          /\ IF status = 403 /\ RecursionRaises(depth)
             THEN /\ ~SleepRaises(CooldownSeconds)
                  /\ pc' = "crashed"
                  /\ exception' = "RecursionError"
                  /\ retrying' = page
                  /\ items' = <<>>
                  /\ UNCHANGED << page, depth >>
             ELSE IF status = 403
             THEN /\ depth < cap
                  /\ ~SleepRaises(CooldownSeconds)
                  /\ depth' = depth + 1
                  /\ page' = RetryPage(page)
                  /\ pc' = RetryEntry
                  /\ retrying' = page
                  /\ items' = <<>>
                  /\ UNCHANGED exception
             ELSE IF status = 200
             THEN /\ retrying' = 0
                  /\ UNCHANGED exception
                  /\ IF Len(its) = 0
                     THEN /\ pc' = "done"
                          /\ depth' = 0
                          /\ UNCHANGED << page, items >>
                     ELSE /\ page < MaxPage
                          /\ pc' = "process"
                          /\ items' = its
                          /\ UNCHANGED << page, depth >>
             ELSE /\ retrying' = 0
                  /\ depth' = 0
                  /\ items' = <<>>
                  /\ UNCHANGED exception
                  /\ IF ReturnOnError
                     THEN /\ page < MaxPage
                          /\ page' = AdvancePage(page)
                          /\ pc' = "probe"
                     ELSE /\ pc' = "done"
                          /\ page' = page
          /\ rate' = NoRate
          /\ UNCHANGED << existing_users, file_exists, file, file0,
                          processed, appends, count_call, last >>

\* the search request with any of the sampled responses
SearchUsers ==
    /\ pc = "search"
    /\ \E status \in SearchStatuses, its \in ResultPages :
          SearchResponse(status, its, MaxDepth)

\* the search request when the API keeps answering 403
SearchForbidden ==
    /\ pc = "search"
    /\ SearchResponse(403, <<>>, RecursionLimit)

\* variant: the company exclusion is left to after the events request
StageCompanyAfterActivity(username, profile_data, ledger) ==
    IF profile_data = <<>> THEN "FetchFailed"
    ELSE IF username \in ledger THEN "AlreadyKnown"
    ELSE IF IndustryExcluded[profile_data[1].bio] THEN "ExcludedIndustry"
    ELSE IF SeniorTitle[profile_data[1].bio] = PyNone THEN "NoSeniorSignal"
    ELSE "CheckActivity"

\* variant: the role is looked for before the industry exclusion
StageRoleBeforeIndustry(username, profile_data, ledger) ==
    IF profile_data = <<>> THEN "FetchFailed"
    ELSE IF username \in ledger THEN "AlreadyKnown"
    ELSE IF CompanyExcluded[profile_data[1].company] THEN "ExcludedCompany"
    ELSE IF SeniorTitle[profile_data[1].bio] # PyNone THEN "CheckActivity"
    ELSE IF IndustryExcluded[profile_data[1].bio] THEN "ExcludedIndustry"
    ELSE "NoSeniorSignal"

\* the checks of the loop body that need no further request, in code order
Stage(username, profile_data, ledger) ==
    IF profile_data = <<>> THEN "FetchFailed"
    ELSE IF username \in ledger THEN "AlreadyKnown"
    ELSE IF CompanyExcluded[profile_data[1].company] THEN "ExcludedCompany"
    ELSE IF IndustryExcluded[profile_data[1].bio] THEN "ExcludedIndustry"
    ELSE IF SeniorTitle[profile_data[1].bio] = PyNone THEN "NoSeniorSignal"
    ELSE "CheckActivity"

\* end of one iteration of the for-loop; after the last item scrape_github
\* returns True and __main__ does page += 1
NextCandidate ==
    /\ items' = Tail(items)
    /\ IF Len(items) = 1
       THEN /\ pc' = "probe"
            /\ page' = AdvancePage(page)
            /\ depth' = 0
            /\ processed' = processed \cup {page}
       ELSE UNCHANGED << pc, page, depth, processed >>

\* one iteration of "for profile in data['items']"
ProcessCandidate ==
    /\ pc = "process"
    /\ Len(items) > 0
    /\ \E response \in ProfileResponses :
          LET username == Head(items)
              status == response.status
              company == response.company
              bio == response.bio
              profile_data == get_github_profile_data(status, Profile(username, company, bio))
              stage == Stage(username, profile_data, existing_users)
              seen == [login |-> username,
                       index |-> IF last.verdict = "none" THEN 1 ELSE last.index + 1,
                       profile_status |-> status,
                       verdict |-> stage,
                       company |-> IF profile_data # <<>> THEN company ELSE PyNone,
                       bio |-> IF profile_data # <<>> THEN bio ELSE PyNone,
                       events_requests |-> 0,
                       events_status |-> 0,
                       commits |-> NoEvents,
                       known |-> username \in existing_users]
          IN  IF stage # "CheckActivity"
              THEN /\ last' = seen
                   /\ UNCHANGED << existing_users, file_exists, file, appends >>
              ELSE \E events_status \in FetchStatuses :
                   \E recent_commits \in RecentCommitCounts[events_status] :
                      LET role == SeniorTitle[profile_data[1].bio]
                          info == profile_info(username, profile_data[1], recent_commits, role)
                      IN  IF MeetsActivity(info.recent_commits)
                          THEN /\ file' = append_to_csv(file, info)
                               /\ appends' = appends + 1
                               /\ file_exists' = TRUE
                               /\ existing_users' = ledger_add(existing_users, username)
                               /\ last' = [seen EXCEPT !.verdict = "Admitted",
                                                       !.events_requests = 1,
                                                       !.events_status = events_status,
                                                       !.commits = recent_commits]
                          ELSE /\ last' = [seen EXCEPT !.verdict = "InsufficientActivity",
                                                       !.events_requests = 1,
                                                       !.events_status = events_status,
                                                       !.commits = recent_commits]
                               /\ UNCHANGED << existing_users, file_exists, file, appends >>
    /\ NextCandidate
    /\ UNCHANGED << exception, file0, rate, response_status, retrying, searched,
                    returned, count_call >>

Next ==
    \/ LoadExistingUsers
    \/ CheckRateLimit
    \/ SearchUsers
    \/ ProcessCandidate

Spec == Init /\ [][Next]_vars

\* a run on an empty ledger in which every search is answered with 403
InitForbidden == InitWith({<<>>})

NextForbidden ==
    \/ LoadExistingUsers
    \/ CheckRateLimit
    \/ SearchForbidden

SpecForbidden == InitForbidden /\ [][NextForbidden]_vars

\* get_recent_commit_count called on its own: any sampled events response,
\* clock reading and local UTC offset
GetRecentCommitCount ==
    /\ pc = "count"
    /\ \E status \in FetchStatuses, offset \in UtcOffsets, now_utc \in 0..MaxClock :
       \E events \in Feeds(now_utc) :
          count_call' = [status |-> status, events |-> events, now_utc |-> now_utc,
                         offset |-> offset,
                         result |-> get_recent_commit_count(status, events, now_utc + offset)]
    /\ UNCHANGED << pc, exception, page, depth, existing_users, file_exists, file,
                    file0, items, rate, response_status, retrying, processed,
                    appends, searched, returned, last >>

InitCommits ==
    /\ pc = "count"
    /\ exception = ""
    /\ page = 1
    /\ depth = 0
    /\ existing_users = {}
    /\ file = <<>>
    /\ file_exists = FALSE
    /\ file0 = <<>>
    /\ items = <<>>
    /\ rate = NoRate
    /\ response_status = 0
    /\ retrying = 0
    /\ processed = {}
    /\ appends = 0
    /\ searched = NoSearch
    /\ returned = <<>>
    /\ count_call = NoCall
    /\ last = NoLast

SpecCommits == InitCommits /\ [][GetRecentCommitCount]_vars

\* the same run started on a file with malformed history
InitMalformed == InitWith(MalformedFiles)

SpecMalformed == InitMalformed /\ [][Next]_vars

\* ranges of the control variables
TypeOK ==
    /\ pc \in {"load", "probe", "search", "process", "done", "crashed"}
    /\ page \in 1..MaxPage
    /\ depth \in 0..MaxDepth
    /\ existing_users \subseteq Logins
    /\ Len(items) <= MaxItems

\* ------------------------------------------------------------ properties
\* identities in the data rows champions.csv had at startup
StartupNames == {file0[i][1] : i \in 2..Len(file0)}

\* C1: every identity in a data row of the file at startup is in the ledger
\* once load_existing_users has run, is never admitted again, and no row
\* appended during the run carries it.
C1_StartupIdentitiesNeverReadmitted ==
    pc # "load" =>
        /\ StartupNames \subseteq existing_users
        /\ \A i \in (Len(file0) + 1)..Len(file) : file[i][1] \notin StartupNames
        /\ (last.login \in StartupNames => last.verdict \in {"FetchFailed", "AlreadyKnown"})

W_C1_StartupIdentitySeenAgain ==
    /\ Len(file0) > 0
    /\ last.login \in StartupNames
    /\ last.verdict = "AlreadyKnown"
    /\ Len(file) > Len(file0)

\* C2: each identity is in at most one data row of champions.csv (and once
\* in the ledger, whose rows' names it contains), however often the search
\* returns the login.
C2_IdentityUniqueInFile ==
    /\ \A i, j \in 2..Len(file) : i # j => file[i][1] # file[j][1]
    /\ pc # "load" => \A i \in 2..Len(file) : file[i][1] \in existing_users

W_C2_AdmittedLoginReturnedAgainOnRetriedPage ==
    /\ last.verdict = "AlreadyKnown"
    /\ last.login \notin StartupNames
    /\ depth > 0

\* C3: a search response whose status is neither 200 nor 403 ends the crawl:
\* the loop reaches Done and the page counter is not advanced.
X_C3_OtherStatusTerminates ==
    [][(pc = "search" /\ response_status' \notin {200, 403})
          => (pc' = "done" /\ page' = page)]_vars

\* C4: a non-success rate-limit probe does not fail the crawl: no wait is
\* made and the search request for the current page is still issued.
X_C4_FailedProbeProceeds ==
    rate.status \notin {0, 200} =>
        /\ pc = "search"
        /\ exception = ""
        /\ rate.slept = NoSleep
        /\ rate.page = page

\* C5: with remaining = 0 the crawl blocks for exactly max(0, resetAt - now)
\* and then goes on to the search request, also when resetAt < now.
X_C5_WaitIsClampedAtZero ==
    (Len(rate.quota) = 2 /\ rate.quota[1] = 0) =>
        /\ pc = "search"
        /\ exception = ""
        /\ rate.slept = (IF rate.quota[2] - rate.now > 0 THEN rate.quota[2] - rate.now ELSE 0)

\* C6: from a 403 on page p up to the retried request the page number stays
\* p, no candidate is processed and the ledger and the file do not change.
C6_ForbiddenRetriesSamePage ==
    [][retrying' # 0 =>
          /\ retrying' = page
          /\ page' = page
          /\ existing_users' = existing_users
          /\ file' = file
          /\ file_exists' = file_exists
          /\ items' = <<>>
          /\ last'.verdict = "none" \/ last' = last
          /\ pc' \in {"probe", "search", "crashed"}]_vars

W_C6_RetryAboutToBeRequested ==
    /\ retrying # 0
    /\ pc = "search"
    /\ page > 1
    /\ Len(file) > Len(file0)

\* C7: when an empty page ends the crawl, every page with a lower number
\* has been fully processed.
X_C7_EarlierPagesProcessedAtDone ==
    pc = "done" => \A q \in 1..(page - 1) : q \in processed

\* C8: every search request, a retry after 403 included, is made right after
\* a rate-limit probe of the same scrape_github call for the same page.
C8_ProbeBeforeEverySearch ==
    pc = "search" =>
        /\ rate # NoRate
        /\ rate.status = 200
        /\ rate.page = page

W_C8_RetryProbedAgain ==
    /\ pc = "search"
    /\ depth > 0
    /\ retrying = page
    /\ rate.page = page

\* C9: the verdict of a fetched candidate follows the precedence AlreadyKnown,
\* ExcludedCompany, ExcludedIndustry, NoSeniorSignal, InsufficientActivity,
\* Admitted: each verdict is given exactly when its condition holds and no
\* earlier one does; an empty or absent company or bio excludes nothing.
C9_VerdictPrecedence ==
    last.verdict \notin {"none", "FetchFailed"} =>
        LET v == last.verdict
            known == last.known
            xc == CompanyExcluded[last.company]
            xi == IndustryExcluded[last.bio]
            norole == SeniorTitle[last.bio] = PyNone
            counted == last.commits # NoEvents
        IN  /\ (v = "AlreadyKnown") <=> known
            /\ (v = "ExcludedCompany") <=> (~known /\ xc)
            /\ (v = "ExcludedIndustry") <=> (~known /\ ~xc /\ xi)
            /\ (v = "NoSeniorSignal") <=> (~known /\ ~xc /\ ~xi /\ norole)
            /\ (v = "InsufficientActivity") <=>
                   (~known /\ ~xc /\ ~xi /\ ~norole /\ counted /\ last.commits < 5)
            /\ (v = "Admitted") <=>
                   (~known /\ ~xc /\ ~xi /\ ~norole /\ counted /\ last.commits >= 5)
            /\ last.company \in {PyNone, <<>>} => v # "ExcludedCompany"
            /\ last.bio \in {PyNone, <<>>} => v # "ExcludedIndustry"
            /\ (last.company = CompanyGoogle /\ ~known) => v = "ExcludedCompany"
            /\ (last.bio = BioFintech /\ ~known /\ last.company # CompanyGoogle)
                   => v = "ExcludedIndustry"

W_C9_IndustryBeforeRole ==
    /\ last.bio = BioFintech
    /\ SeniorTitle[last.bio] # PyNone
    /\ last.verdict = "ExcludedIndustry"

\* C10: a candidate past the dedup, company, industry and role checks is
\* admitted (row appended, identity added to the ledger) iff its recent
\* commit count is >= 5; below, file and ledger stay as they were.
C10_ActivityThresholdInclusive ==
    [][(/\ pc = "process"
        /\ last'.verdict # "FetchFailed"
        /\ ~last'.known
        /\ ~CompanyExcluded[last'.company]
        /\ ~IndustryExcluded[last'.bio]
        /\ SeniorTitle[last'.bio] # PyNone)
          => /\ last'.commits \in Nat
             /\ last'.commits >= 5 =>
                   /\ last'.verdict = "Admitted"
                   /\ Len(file') = Len(file) + (IF Len(file) = 0 THEN 2 ELSE 1)
                   /\ SubSeq(file', Len(file') - Len(file), Len(file') - 1) = file
                   /\ file'[Len(file')][1] = last'.login
                   /\ file'[Len(file')][6] = Str(last'.commits)
                   /\ existing_users' = existing_users \cup {last'.login}
             /\ last'.commits < 5 =>
                   /\ last'.verdict = "InsufficientActivity"
                   /\ file' = file
                   /\ existing_users' = existing_users]_vars

W_C10_FourRejectedAfterFiveAdmitted ==
    /\ last.verdict = "InsufficientActivity"
    /\ last.commits = 4
    /\ \E i \in (Len(file0) + 1)..Len(file) : i >= 2 /\ file[i][6] = Str(5)

\* C11: a failed profile fetch skips the candidate with no events request,
\* no append and no ledger change; a failed events fetch gives a count of 0
\* and a rejection for activity; in both cases the loop goes on with the
\* next candidate of the page.
C11_FetchFailuresSkipTheCandidate ==
    [][pc = "process" =>
          /\ last'.profile_status # 200 =>
                /\ last'.verdict = "FetchFailed"
                /\ last'.events_requests = 0
          /\ (last'.events_requests = 1 /\ last'.events_status # 200) =>
                /\ last'.commits = 0
                /\ last'.verdict = "InsufficientActivity"
          /\ (last'.profile_status # 200 \/ last'.events_status \notin {0, 200}) =>
                /\ file' = file
                /\ existing_users' = existing_users
                /\ exception' = ""
                /\ items' = Tail(items)
                /\ Len(items) > 1 => (pc' = "process" /\ page' = page)
                /\ Len(items) = 1 => pc' = "probe"]_vars

W_C11_EventsFetchFailedAndLoopGoesOn ==
    /\ last.profile_status = 200
    /\ last.events_requests = 1
    /\ last.events_status = 404
    /\ last.verdict = "InsufficientActivity"
    /\ pc = "process"
    /\ Len(items) > 0

\* C12: loading the ledger does not crash on malformed historical rows: a
\* row without a name is skipped and adds no element, not even an empty or
\* null identity, and the well-formed rows are still loaded.
X_C12_MalformedRowsAreSkipped ==
    pc # "load" =>
        /\ exception # "KeyError"
        /\ <<>> \notin existing_users
        /\ PyNone \notin existing_users
        /\ \A i \in 2..Len(file0) :
              (Len(file0[i]) = Len(FIELDNAMES) /\ file0[i][1] # <<>>)
                  => file0[i][1] \in existing_users

\* C13: after any number of appends to a file that was empty or absent the
\* file is one header row followed by one data row per append; an append to
\* a non-empty file adds one data row and no header.
C13_OneHeaderThenOneRowPerAppend ==
    /\ (file0 = <<>> /\ appends = 0) => file = <<>>
    /\ (file0 = <<>> /\ appends > 0) =>
          /\ Len(file) = 1 + appends
          /\ file[1] = FIELDNAMES
    /\ file0 # <<>> => Len(file) = Len(file0) + appends
    /\ \A i \in 2..Len(file) : file[i] # FIELDNAMES /\ Len(file[i]) = Len(FIELDNAMES)

W_C13_TwoAppendsToEmptyFile ==
    /\ file0 = <<>>
    /\ appends = 2
    /\ Len(file) = 3

\* C14: champions.csv is append-only: at every step of the run (load,
\* probe, search, retry, rejection, admission, termination) the rows it had
\* before are a prefix of the rows it has after, and the file never
\* disappears.
C14_FileIsAppendOnly ==
    [][/\ Len(file') >= Len(file)
       /\ SubSeq(file', 1, Len(file)) = file
       /\ file_exists => file_exists'
       /\ file0' = file0]_vars

W_C14_RowAppendedAfterOldRows ==
    /\ Len(file0) > 1
    /\ appends > 0
    /\ SubSeq(file, 1, Len(file0)) = file0
    /\ pc = "done"

\* C15: the events request for a candidate is made only after the candidate
\* passed every cheaper check (profile fetched, not in the ledger, company
\* and industry not excluded, a role found), and at most once.
C15_EventsRequestOnlyAfterCheaperChecks ==
    /\ last.events_requests \in {0, 1}
    /\ last.events_requests = 1 =>
          /\ last.profile_status = 200
          /\ ~last.known
          /\ ~CompanyExcluded[last.company]
          /\ ~IndustryExcluded[last.bio]
          /\ SeniorTitle[last.bio] # PyNone
          /\ last.events_status # 0
    /\ last.events_requests = 0 =>
          /\ last.events_status = 0
          /\ last.commits = NoEvents

W_C15_ExcludedCompanyWithRoleNotCounted ==
    /\ last.verdict = "ExcludedCompany"
    /\ SeniorTitle[last.bio] # PyNone
    /\ ~IndustryExcluded[last.bio]
    /\ last.events_requests = 0

\* C16: search requests are made for page numbers that start at 1 and never
\* decrease; after a 403 the same page is requested, after any other
\* response the next one; within a page the candidates are handled one at a
\* time in response order, and an admitted candidate's row and ledger entry
\* are in place before the next candidate is fetched.
C16_PagesAndCandidatesInOrder ==
    [][/\ page' >= page
       /\ pc = "search" =>
             /\ searched'.page = page
             /\ searched.page = 0 => page = 1
             /\ (searched.page # 0 /\ searched.status = 403) => page = searched.page
             /\ (searched.page # 0 /\ searched.status # 403) => page = searched.page + 1
             /\ pc' = "process" => (items' = returned' /\ Len(items') > 0 /\ page' = page)
       /\ pc = "process" =>
             /\ returned' = returned
             /\ page = searched.page
             /\ last'.index = Len(returned) - Len(items) + 1
             /\ last'.login = returned[last'.index]
             /\ items' = SubSeq(returned, last'.index + 1, Len(returned))
             /\ last'.verdict = "Admitted" =>
                   /\ last'.login \in existing_users'
                   /\ file'[Len(file')][1] = last'.login
             /\ pc' = "probe" => (items' = <<>> /\ page' = page + 1)
             /\ pc' = "process" => page' = page]_vars

W_C16_SecondPageDoneInOrder ==
    /\ pc = "probe"
    /\ page = 3
    /\ searched = [page |-> 2, status |-> 200]
    /\ Len(returned) = 2
    /\ last.index = 2
    /\ last.verdict = "Admitted"

\* C17: however many 403 responses follow each other for a page, the crawl
\* keeps retrying that page: no exception or abnormal end comes of the
\* retries at any count, and page, ledger and file stay as they were.
X_C17_ForbiddenRetriedWithoutEnd ==
    depth > 0 =>
        /\ exception # "RecursionError"
        /\ page = 1
        /\ existing_users = {}
        /\ file = file0

\* the keyword occurs in the bio, case-insensitively; no keyword occurs in
\* an empty or absent bio
Occurs(keyword, bio) ==
    /\ bio # PyNone
    /\ \E i \in 1..Len(bio) :
          /\ i + Len(keyword) - 1 <= Len(bio)
          /\ \A k \in 1..Len(keyword) : LowerChar(bio[i + k - 1]) = keyword[k]

\* the role the stated rule gives a bio
RoleByRule(bio) ==
    LET n == Len(SENIORITY_KEYWORDS)
        first == {i \in 1..n : /\ Occurs(SENIORITY_KEYWORDS[i], bio)
                               /\ \A j \in 1..(i - 1) : ~Occurs(SENIORITY_KEYWORDS[j], bio)}
    IN  IF first # {}
        THEN LET kw == SENIORITY_KEYWORDS[CHOOSE i \in first : TRUE]
             IN  <<UpperChar(kw[1])>> \o SubSeq(kw, 2, Len(kw))
        ELSE IF \E j \in 1..Len(STARTUP_KEYWORDS) : Occurs(STARTUP_KEYWORDS[j], bio)
        THEN StartupLabel
        ELSE PyNone

RoleByRuleOf == [b \in Bios |-> RoleByRule(b)]

\* C18: the role is the capitalized first seniority keyword, in list order,
\* that occurs in the bio case-insensitively; the startup list is consulted
\* only when no seniority keyword occurs and gives the fixed label; an empty
\* or absent bio or one matching neither list gives no role and the verdict
\* NoSeniorSignal, with no look at the activity.
C18_RoleIsFirstKeywordInListOrder ==
    /\ last.verdict = "Admitted" =>
          /\ file[Len(file)][1] = last.login
          /\ file[Len(file)][7] = RoleByRuleOf[last.bio]
          /\ last.bio = BioDirector =>
                file[Len(file)][7] = <<"D", "i", "r", "e", "c", "t", "o", "r">>
          /\ last.bio = BioStaffAdvisor =>
                file[Len(file)][7] = <<"S", "t", "a", "f", "f", " ", "e", "n", "g", "i", "n", "e", "e", "r">>
          /\ last.bio = BioAngel => file[Len(file)][7] = StartupLabel
    /\ (/\ last.profile_status = 200
        /\ ~last.known
        /\ ~CompanyExcluded[last.company]
        /\ ~IndustryExcluded[last.bio]) =>
          /\ (last.verdict = "NoSeniorSignal") <=> (RoleByRuleOf[last.bio] = PyNone)
          /\ last.bio \in {PyNone, <<>>, BioPlain} => last.verdict = "NoSeniorSignal"
          /\ last.verdict = "NoSeniorSignal" => last.events_requests = 0

W_C18_SeniorityBeatsStartupKeyword ==
    /\ last.verdict = "Admitted"
    /\ last.bio = BioStaffAdvisor
    /\ file[Len(file)][7] = capitalize(SENIORITY_KEYWORDS[1])

\* C19: the recent-commit count is the number of push events whose UTC
\* timestamp t satisfies t >= now_UTC - 30 days, for every feed and clock
\* reading and whatever the local UTC offset of the machine is.
X_C19_CountUsesUtcWindow ==
    count_call.status = 200 =>
        count_call.result =
            Cardinality({i \in 1..Len(count_call.events) :
                /\ count_call.events[i].type = PushEvent
                /\ count_call.events[i].created_at >=
                       count_call.now_utc - RecentWindowDays * SecondsPerDay})

\* identities in the data rows of champions.csv
FileNames(f) == {f[i][1] : i \in 2..Len(f)}

\* C20: at every candidate boundary of a run the ledger is the set of
\* identities in the data rows of champions.csv; the ledger gains an
\* identity exactly in the step that appends its row, and nothing else.
C20_LedgerMirrorsFile ==
    [][pc' # "load" =>
          /\ existing_users' = FileNames(file')
          /\ pc # "load" =>
                /\ (existing_users' # existing_users) <=> (file' # file)
                /\ file' # file =>
                      /\ pc = "process"
                      /\ file'[Len(file')][1] = Head(items)
                      /\ existing_users' = existing_users \cup {Head(items)}
                      /\ Head(items) \notin existing_users]_vars

W_C20_LedgerGrewWithFile ==
    /\ pc = "process"
    /\ Len(file0) > 1
    /\ appends = 1
    /\ Cardinality(existing_users) = 2
    /\ existing_users = FileNames(file)

====
